---- MODULE Spec2Model ----
(***************************************************************************)
(* Resumify: the token-gated resume generation workflow, the resume record *)
(* lifecycle and the purchase ledger of src/app.py, as a state machine.    *)
(*                                                                         *)
(* Text is modelled as a sequence of tokens: a token is a word, a blank    *)
(* " ", a comma ",", a bracket "[" / "]" or an HTML tag such as "<b>".     *)
(* None is the empty tuple; the three JSON columns hold None or            *)
(* <<"json", list>>.  models.py and config.py are not among the sources:   *)
(* the User methods and FREE_TEMPLATES are modelled from the               *)
(* specification text.                                                     *)
(***************************************************************************)
EXTENDS Integers, Sequences, FiniteSets, TLC

VARIABLES users, resumes, next_id, purchases, files, now, last, ai

vars == <<users, resumes, next_id, purchases, files, now, last, ai>>

(***************************************************************************)
(* Bounds of the model.                                                    *)
(***************************************************************************)
NumUsers == 2
MaxResumes == 2
MaxGenerated == 3
MaxPurchases == 2
MaxNow == 1

(***************************************************************************)
(* Program constants.                                                      *)
(***************************************************************************)
RegisterTokens == 3
ProBonus == 15
UnlimitedTokens == 9999
ProPrice == 199
UltimatePrice == 499
SinglePackPrice == 50
FivePackPrice == 100
SanitizeMaxLength == 5000
FreeDailyTokens == 3

None == <<>>

UserIds == 1..NumUsers

Min(a, b) == IF a < b THEN a ELSE b

(***************************************************************************)
(* Text helpers.                                                           *)
(***************************************************************************)
\* str.strip(): drop leading and trailing blanks.
RECURSIVE LStrip(_)
LStrip(v) == IF v # <<>> /\ Head(v) = " " THEN LStrip(Tail(v)) ELSE v

RECURSIVE RStrip(_)
RStrip(v) == IF v # <<>> /\ v[Len(v)] = " " THEN RStrip(SubSeq(v, 1, Len(v) - 1)) ELSE v

Strip(v) == RStrip(LStrip(v))

AllowedTags == {"<b>", "</b>", "<i>", "</i>", "<u>", "</u>", "<br>", "<p>", "</p>",
                "<strong>", "</strong>", "<em>", "</em>"}

OtherTags == {"<script>", "</script>", "<a>", "</a>"}

\* bleach.clean(text, tags=allowed_tags, attributes={}, strip=True)
BleachClean(text) == SelectSeq(text, LAMBDA tok : tok \notin OtherTags)

sanitize_input_len(text, max_length) ==
    IF text = <<>> THEN text
    ELSE BleachClean(SubSeq(text, 1, Min(Len(text), max_length)))

sanitize_input(text) == sanitize_input_len(text, SanitizeMaxLength)

\* str.split(','): the parts between the commas (always at least one part).
RECURSIVE SplitComma(_)
SplitComma(v) ==
    IF \A i \in 1..Len(v) : v[i] # "," THEN <<v>>
    ELSE LET k == CHOOSE i \in 1..Len(v) : v[i] = "," /\ \A j \in 1..(i - 1) : v[j] # ","
         IN <<SubSeq(v, 1, k - 1)>> \o SplitComma(SubSeq(v, k + 1, Len(v)))

\* sep.join(parts)
RECURSIVE Join(_, _)
Join(sep, parts) ==
    IF parts = <<>> THEN <<>>
    ELSE IF Len(parts) = 1 THEN parts[1]
    ELSE parts[1] \o sep \o Join(sep, Tail(parts))

StripAll(parts) == [i \in 1..Len(parts) |-> Strip(parts[i])]

\* [s.strip() for s in text.split(',') if s.strip()]
skills_list(text) == SelectSeq(StripAll(SplitComma(text)), LAMBDA s : s # <<>>)

(***************************************************************************)
(* The submitted form: a sequence of <<key, value>> pairs with distinct    *)
(* keys, in submission order.                                              *)
(***************************************************************************)
form_keys(form) == [i \in 1..Len(form) |-> form[i][1]]

form_has(form, key) == \E i \in 1..Len(form) : form[i][1] = key

form_get(form, key, default) ==
    IF form_has(form, key)
    THEN form[CHOOSE i \in 1..Len(form) : form[i][1] = key][2]
    ELSE default

startswith(key, prefix) == Len(key) >= Len(prefix) /\ SubSeq(key, 1, Len(prefix)) = prefix

endswith(key, suffix) ==
    Len(key) >= Len(suffix) /\ SubSeq(key, Len(key) - Len(suffix) + 1, Len(key)) = suffix

\* The part of text before the first token tok (all of it when tok is absent).
UpTo(text, tok) ==
    IF \A i \in 1..Len(text) : text[i] # tok THEN text
    ELSE LET k == CHOOSE i \in 1..Len(text) : text[i] = tok /\ \A j \in 1..(i - 1) : text[j] # tok
         IN SubSeq(text, 1, k - 1)

\* The part of text after the first token tok.
After(text, tok) ==
    LET k == CHOOSE i \in 1..Len(text) : text[i] = tok /\ \A j \in 1..(i - 1) : text[j] # tok
    IN SubSeq(text, k + 1, Len(text))

\* key.split('[')[1].split(']')[0], for a key that holds a "[".
index_token(key) == UpTo(UpTo(After(key, "["), "["), "]")

group_key(prefix, idx, field) == <<prefix, "[">> \o idx \o <<"]", "[", field, "]">>

json_dumps(list) == <<"json", list>>

json_loads(col) == col[2]

json_or_none(list) == IF list # <<>> THEN json_dumps(list) ELSE None

(***************************************************************************)
(* Nested-form decoding (generate steps 6-8, repeated in edit_resume).     *)
(***************************************************************************)
experience_record(form, idx) ==
    [job_title |-> sanitize_input(Strip(form_get(form, group_key("experiences", idx, "job_title"), <<>>))),
     company   |-> sanitize_input(Strip(form_get(form, group_key("experiences", idx, "company"), <<>>))),
     job_desc  |-> sanitize_input(Strip(form_get(form, group_key("experiences", idx, "job_desc"), <<>>)))]

\* Mutant: only the job title keeps a record.
experience_kept_title(rec) == rec.job_title # <<>>

experience_kept(rec) == rec.job_title # <<>> \/ rec.company # <<>>

RECURSIVE experiences_from(_, _)
experiences_from(form, keys) ==
    IF keys = <<>> THEN <<>>
    ELSE LET key == Head(keys)
             rec == experience_record(form, index_token(key))
         IN (IF /\ startswith(key, <<"experiences", "[">>)
                /\ endswith(key, <<"[", "job_title", "]">>)
                /\ experience_kept(rec)
             THEN <<rec>> ELSE <<>>) \o experiences_from(form, Tail(keys))

decode_experiences(form) == experiences_from(form, form_keys(form))

project_record(form, idx) ==
    [name        |-> sanitize_input(Strip(form_get(form, group_key("projects", idx, "name"), <<>>))),
     description |-> sanitize_input(Strip(form_get(form, group_key("projects", idx, "description"), <<>>))),
     link        |-> Strip(form_get(form, group_key("projects", idx, "link"), <<>>))]

RECURSIVE projects_from(_, _)
projects_from(form, keys) ==
    IF keys = <<>> THEN <<>>
    ELSE LET key == Head(keys)
             rec == project_record(form, index_token(key))
         IN (IF /\ startswith(key, <<"projects", "[">>)
                /\ endswith(key, <<"[", "name", "]">>)
                /\ rec.name # <<>>
             THEN <<rec>> ELSE <<>>) \o projects_from(form, Tail(keys))

decode_projects(form) == projects_from(form, form_keys(form))

certification_record(form, idx) ==
    [name   |-> sanitize_input(Strip(form_get(form, group_key("certifications", idx, "name"), <<>>))),
     issuer |-> sanitize_input(Strip(form_get(form, group_key("certifications", idx, "issuer"), <<>>))),
     year   |-> Strip(form_get(form, group_key("certifications", idx, "year"), <<>>))]

RECURSIVE certifications_from(_, _)
certifications_from(form, keys) ==
    IF keys = <<>> THEN <<>>
    ELSE LET key == Head(keys)
             rec == certification_record(form, index_token(key))
         IN (IF /\ startswith(key, <<"certifications", "[">>)
                /\ endswith(key, <<"[", "name", "]">>)
                /\ rec.name # <<>>
             THEN <<rec>> ELSE <<>>) \o certifications_from(form, Tail(keys))

decode_certifications(form) == certifications_from(form, form_keys(form))

(***************************************************************************)
(* The User methods the handlers call (models.py), from the specification. *)
(***************************************************************************)
\* Timestamps are kept at the resolution of the daily reset window.
Day(t) == t

is_pro_user(user) == user.plan = "pro"

is_ultimate_user(user) == user.plan = "ultimate"

\* true if unlimited or balance > 0
has_tokens(user) == is_ultimate_user(user) \/ user.tokens > 0

\* decrements the balance by 1 unless unlimited; never goes below 0
deduct_token(user) ==
    IF is_ultimate_user(user) \/ user.tokens <= 0 THEN user
    ELSE [user EXCEPT !.tokens = @ - 1]

\* The users reset_tokens_if_needed can leave: outside the daily window of the
\* last reset a free user's allotment is restored to the baseline.  Whether a
\* balance above the baseline is lowered to it is left open by the
\* specification: both outcomes are kept.
reset_tokens_if_needed(user, t) ==
    IF Day(user.last_token_reset) = Day(t) \/ user.plan # "free" THEN {user}
    ELSE {[user EXCEPT !.tokens = FreeDailyTokens, !.last_token_reset = t]}
         \cup (IF user.tokens > FreeDailyTokens
               THEN {[user EXCEPT !.last_token_reset = t]} ELSE {})

\* config.FREE_TEMPLATES
FREE_TEMPLATES == {<<"classic">>, <<"modern">>}

(***************************************************************************)
(* Bio generation.                                                         *)
(***************************************************************************)
skill_text(list) ==
    IF Len(list) >= 3 THEN list[1] \o <<",", " ">> \o list[2] \o <<",", " ", "and", " ">> \o list[3]
    ELSE IF Len(list) = 2 THEN list[1] \o <<" ", "and", " ">> \o list[2]
    ELSE IF Len(list) = 1 THEN list[1]
    ELSE <<"various technologies">>

\* The three templates random.choice picks from.
fallback_templates(name, profession, skills) ==
    LET st == skill_text(skills_list(skills)) IN
    << <<"I'm", " ">> \o name \o <<",", " ", "a", " ">> \o profession
           \o <<" ", "with expertise in", " ">> \o st \o <<".", " ", "I'm passionate.">>,
       <<"I'm a", " ">> \o profession \o <<" ", "specializing in", " ">> \o st
           \o <<".", " ", "I combine.">>,
       <<"As a", " ">> \o profession \o <<",", " ", "I leverage", " ">> \o st
           \o <<" ", "to build innovative solutions.">> >>

generate_fallback_bio(name, profession, skills) ==
    {fallback_templates(name, profession, skills)[i] : i \in 1..3}

\* What get_ai_response hands back: None, or an accepted completion.
AiResponses == {None, <<"\"", "I", " ", "build", " ", "things.", "\"">>}

unquote(bio) ==
    LET b1 == IF Len(bio) >= 1 /\ bio[1] = "\"" /\ bio[Len(bio)] = "\""
              THEN SubSeq(bio, 2, Len(bio) - 1) ELSE bio
    IN IF Len(b1) >= 1 /\ b1[1] = "'" /\ b1[Len(b1)] = "'"
       THEN SubSeq(b1, 2, Len(b1) - 1) ELSE b1

\* The bios generate_bio can return.
generate_bio(name, profession, skills) ==
    {unquote(Strip(answer)) : answer \in AiResponses \ {None}}
    \cup generate_fallback_bio(name, profession, skills)

(***************************************************************************)
(* Requests: the forms, uploads and arguments the handlers are tried with. *)
(***************************************************************************)
FormAda ==
    << <<<<"name">>, <<"Ada">>>>,
       <<<<"profession">>, <<"Engineer">>>>,
       <<<<"skills">>, <<"Python", ",", "Go">>>> >>

FormPlain ==
    << <<<<"name">>, <<"Ann">>>>,
       <<<<"profession">>, <<"Dev">>>>,
       <<<<"bio">>, <<"Hi">>>>,
       <<<<"email">>, <<"ann@x">>>>,
       <<group_key("experiences", <<"0">>, "job_title"), <<" ", "Lead">>>>,
       <<group_key("experiences", <<"0">>, "company"), <<"<script>", "Acme">>>>,
       <<group_key("experiences", <<"0">>, "job_desc"), <<>>>>,
       <<group_key("experiences", <<"x">>, "job_title"), <<>>>>,
       <<group_key("experiences", <<"x">>, "company"), <<" ">>>> >>

FormPremium ==
    << <<<<"name">>, <<"<b>", "Bob", "</b>">>>>,
       <<<<"profession">>, <<"Chef">>>>,
       <<<<"bio">>, <<"Yo">>>>,
       <<<<"template">>, <<"executive">>>>,
       <<group_key("projects", <<"p1">>, "name"), <<"Site">>>>,
       <<group_key("projects", <<"p1">>, "link"), <<"http://s">>>>,
       <<group_key("certifications", <<"7">>, "name"), <<"AWS">>>>,
       <<group_key("certifications", <<"8">>, "name"), <<" ">>>> >>

FormNoName ==
    << <<<<"profession">>, <<"Clerk">>>>,
       <<<<"template">>, <<"modern">>>> >>

\* The name field is submitted, and empty.
FormBlankName ==
    << <<<<"name">>, <<>>>>,
       <<<<"profession">>, <<"Clerk">>>>,
       <<<<"bio">>, <<"Hi">>>> >>

Forms == {FormPlain, FormPremium, FormNoName}

EmptyForm == <<>>

MaxUploadBytes == 5 * 1024 * 1024

\* An uploaded file is None or its filename and size.
Uploads ==
    {None,
     <<[filename |-> <<"me", ".", "PNG">>, size |-> 1024]>>,
     <<[filename |-> <<"cv", ".", "exe">>, size |-> 1024]>>,
     <<[filename |-> <<"me", ".", "PNG">>, size |-> MaxUploadBytes + 1]>>}

allowed_extensions == {"png", "jpg", "jpeg", "gif", "webp"}

lower(tok) == IF tok = "PNG" THEN "png" ELSE tok

\* pic.filename.rsplit('.', 1)[1].lower() if '.' in pic.filename else ''
file_ext(filename) ==
    IF \E i \in 1..Len(filename) : filename[i] = "." THEN lower(filename[Len(filename)]) ELSE ""

\* werkzeug's secure_filename: path separators and parent references are dropped.
secure_filename(filename) == SelectSeq(filename, LAMBDA tok : tok \notin {"/", ".."})

\* f"{timestamp}_{filename}"
stored_filename(t, filename) == <<t>> \o secure_filename(filename)

pic_url_of(stored) == <<"/static/uploads/">> \o stored

\* original.profile_pic_url.replace('/static/uploads/', '')
old_path_of(url) == Tail(url)

Counts == {0, 1, 3, 5}

Plans == {"pro", "ultimate", "gold"}

Emails == UserIds

(***************************************************************************)
(* The response of the request handled last, with the request it answers.  *)
(* body is the row the page shows (None when it shows none); before is the *)
(* row an edit found, commits the number of db.session.commit() calls that *)
(* went through while the request was handled.                             *)
(***************************************************************************)
Reply(op, u, rid, form, count, plan, status, body) ==
    [op |-> op, user |-> u, rid |-> rid, form |-> form, count |-> count,
     plan |-> plan, status |-> status, body |-> body, before |-> None, commits |-> 0]

Committed(reply, n) == [reply EXCEPT !.commits = n]

\* get_ai_response before it is called.
AiIdle ==
    [pc |-> "idle", api_key |-> FALSE, attempt |-> 0, sent |-> 0, outcomes |-> <<>>,
     slept |-> 0, result |-> None]

Init ==
    /\ users = <<>>
    /\ resumes = <<>>
    /\ next_id = 1
    /\ purchases = <<>>
    /\ files = {}
    /\ now = 0
    /\ ai = AiIdle
    /\ last = Reply("start", 0, 0, EmptyForm, 0, "", "", None)

\* Time passes between requests.
Tick ==
    /\ UNCHANGED ai
    /\ now < MaxNow
    /\ now' = now + 1
    /\ last' = Reply("tick", 0, 0, EmptyForm, 0, "", "", None)
    /\ UNCHANGED <<users, resumes, next_id, purchases, files>>

new_user(t) ==
    [tokens |-> RegisterTokens, plan |-> "free", last_generated |-> -1, last_token_reset |-> t]

\* The k-th account holds the k-th address: an address is taken when an account holds it.
email_taken(email) == email \in DOMAIN users

Register(email, valid) ==
    /\ UNCHANGED ai
    /\ Len(users) < NumUsers
    /\ email <= Len(users) + 1
    /\ IF ~valid
       THEN \* validate_on_submit fails: the form is shown again
            /\ last' = Reply("register", 0, 0, EmptyForm, 0, "", "form", None)
            /\ UNCHANGED users
       ELSE IF email_taken(email)
       THEN /\ last' = Reply("register", 0, 0, EmptyForm, 0, "", "email_taken", None)
            /\ UNCHANGED users
       ELSE /\ users' = Append(users, new_user(now))
            /\ last' = Committed(Reply("register", Len(users) + 1, 0, EmptyForm, 0, "", "created", None), 1)
    /\ UNCHANGED <<resumes, next_id, purchases, files, now>>

(***************************************************************************)
(* Purchase ledger.                                                        *)
(***************************************************************************)
\* Mutant: a count without a pack is priced per token.
price_map_per_token(count) ==
    CASE count = 1 -> SinglePackPrice
      [] count = 5 -> FivePackPrice
      [] OTHER -> count * SinglePackPrice

price_map(count) ==
    CASE count = 1 -> SinglePackPrice
      [] count = 5 -> FivePackPrice
      [] OTHER -> 0

\* Mutant: the new row takes the place of the ledger.
add_purchase_overwrite(ledger, purchase) == <<purchase>>

\* db.session.add(purchase)
add_purchase(ledger, purchase) == Append(ledger, purchase)

\* Mutant: the count is taken off the balance.
buy_tokens_subtract(user, count) == [user EXCEPT !.tokens = @ - count]

\* Mutant: one token is added whatever the pack.
buy_tokens_one(user, count) == [user EXCEPT !.tokens = @ + 1]

buy_tokens(user, count) == [user EXCEPT !.tokens = @ + count]

BuyToken(u, count) ==
    /\ UNCHANGED ai
    /\ u \in DOMAIN users
    /\ LET amount == price_map(count) IN
       IF amount = 0
       THEN /\ last' = Reply("buy_token", u, 0, EmptyForm, count, "", "invalid_pack", None)
            /\ UNCHANGED <<users, purchases>>
       ELSE /\ Len(purchases) < MaxPurchases
            /\ users' = [users EXCEPT ![u] = buy_tokens(@, count)]
            /\ purchases' = add_purchase(purchases,
                   [user_id |-> u, amount |-> amount,
                    description |-> <<ToString(count), " ", "Token Pack">>])
            /\ last' = Committed(Reply("buy_token", u, 0, EmptyForm, count, "", "purchased", None), 1)
    /\ UNCHANGED <<resumes, next_id, files, now>>

\* Mutant: pro sets the balance to the bonus instead of adding it.
upgrade_user_set(user, plan) ==
    IF plan = "pro" THEN [user EXCEPT !.tokens = ProBonus, !.plan = "pro"]
    ELSE [user EXCEPT !.tokens = UnlimitedTokens, !.plan = "ultimate"]

upgrade_user(user, plan) ==
    IF plan = "pro" THEN [user EXCEPT !.tokens = @ + ProBonus, !.plan = "pro"]
    ELSE [user EXCEPT !.tokens = UnlimitedTokens, !.plan = "ultimate"]

upgrade_purchase(u, plan) ==
    IF plan = "pro" THEN [user_id |-> u, amount |-> ProPrice, description |-> <<"Pro Pack">>]
    ELSE [user_id |-> u, amount |-> UltimatePrice, description |-> <<"Ultimate Pack">>]

known_plan(plan) == plan = "pro" \/ plan = "ultimate"

Upgrade(u, plan) ==
    /\ UNCHANGED ai
    /\ u \in DOMAIN users
    /\ IF ~known_plan(plan)
       THEN /\ last' = Reply("upgrade", u, 0, EmptyForm, 0, plan, "invalid_plan", None)
            /\ UNCHANGED <<users, purchases>>
       ELSE /\ Len(purchases) < MaxPurchases
            /\ users' = [users EXCEPT ![u] = upgrade_user(@, plan)]
            /\ purchases' = add_purchase(purchases, upgrade_purchase(u, plan))
            /\ last' = Committed(Reply("upgrade", u, 0, EmptyForm, 0, plan, "upgraded", None), 1)
    /\ UNCHANGED <<resumes, next_id, files, now>>

(***************************************************************************)
(* Resume generation.                                                      *)
(***************************************************************************)
\* The id the database gives a new row: ids count up and are not handed out twice.
new_resume_id == next_id

is_premium(template) == template \notin FREE_TEMPLATES

\* Mutant: the membership test is inverted.
template_refused_inverted(user, template) ==
    ~is_premium(template) /\ ~(is_pro_user(user) \/ is_ultimate_user(user))

\* Step 2: a premium template asked for by a user who is neither pro nor ultimate.
template_refused(user, template) ==
    is_premium(template) /\ ~(is_pro_user(user) \/ is_ultimate_user(user))

\* Step 4: the upload is rejected ("" when it is not).
upload_error(upload) ==
    IF upload = None THEN ""
    ELSE IF file_ext(upload[1].filename) \notin allowed_extensions THEN "invalid_file"
    ELSE IF upload[1].size > MaxUploadBytes THEN "file_too_large"
    ELSE ""

\* Step 5: the bios the request can end with.
generate_bios(form) ==
    LET bio_input == sanitize_input(Strip(form_get(form, <<"bio">>, <<>>)))
    IN IF bio_input = <<>>
       THEN generate_bio(sanitize_input(form_get(form, <<"name">>, <<>>)),
                         sanitize_input(form_get(form, <<"profession">>, <<>>)),
                         Join(<<",", " ">>, skills_list(form_get(form, <<"skills">>, <<>>))))
       ELSE {bio_input}

\* Step 9: the Resume row.
new_resume(u, form, bio, pic_url) ==
    [user_id         |-> u,
     name            |-> sanitize_input(form_get(form, <<"name">>, <<>>)),
     profession      |-> sanitize_input(form_get(form, <<"profession">>, <<>>)),
     email           |-> form_get(form, <<"email">>, <<>>),
     bio             |-> bio,
     skills          |-> Join(<<",">>, skills_list(form_get(form, <<"skills">>, <<>>))),
     experiences     |-> json_or_none(decode_experiences(form)),
     degree          |-> sanitize_input(form_get(form, <<"degree">>, <<>>)),
     profile_pic_url |-> pic_url,
     template        |-> form_get(form, <<"template">>, <<"classic">>),
     projects        |-> json_or_none(decode_projects(form)),
     certifications  |-> json_or_none(decode_certifications(form))]

\* db.session.add(resume)
add_resume(table, id, resume) == (id :> resume) @@ table

\* Mutant: the timestamp is set and no token deducted.
charge_generation_free(user, t) == [user EXCEPT !.last_generated = t]

\* Mutant: the balance is decremented in place, unlimited or not.
charge_generation_plain(user, t) == [user EXCEPT !.tokens = @ - 1, !.last_generated = t]

\* Step 10: current_user.deduct_token(); current_user.last_generated = utcnow()
charge_generation(user, t) == [deduct_token(user) EXCEPT !.last_generated = t]

\* form['name'] or form['profession'] raises KeyError.
missing_required(form) == ~form_has(form, <<"name">>) \/ ~form_has(form, <<"profession">>)

GenReply(u, form, status) == Reply("generate", u, 0, form, 0, "", status, None)

Generate(u, form, upload, cap) ==
    /\ UNCHANGED ai
    /\ u \in DOMAIN users
    /\ UNCHANGED <<purchases, now>>
    /\ \E commit1 \in BOOLEAN :
         IF ~commit1
         THEN \* the commit of step 1 raises: rollback
              /\ last' = GenReply(u, form, "failed")
              /\ UNCHANGED <<users, resumes, next_id, files>>
         ELSE \E usr \in reset_tokens_if_needed(users[u], now) :
              LET users1 == [users EXCEPT ![u] = usr]
                  template == form_get(form, <<"template">>, <<"classic">>)
              IN
              IF template_refused(usr, template)
              THEN /\ users' = users1
                   /\ last' = Committed(GenReply(u, form, "premium_required"), 1)
                   /\ UNCHANGED <<resumes, next_id, files>>
              ELSE IF ~has_tokens(usr)
              THEN /\ users' = users1
                   /\ last' = Committed(GenReply(u, form, "out_of_tokens"), 1)
                   /\ UNCHANGED <<resumes, next_id, files>>
              ELSE IF upload_error(upload) # ""
              THEN /\ users' = users1
                   /\ last' = Committed(GenReply(u, form, upload_error(upload)), 1)
                   /\ UNCHANGED <<resumes, next_id, files>>
              ELSE
              LET stored == IF upload = None THEN None
                            ELSE stored_filename(now, upload[1].filename)
                  pic_url == IF upload = None THEN None ELSE pic_url_of(stored)
              IN
              /\ files' = IF upload = None THEN files ELSE files \cup {stored}
              /\ IF missing_required(form)
                 THEN /\ users' = users1
                      /\ last' = Committed(GenReply(u, form, "failed"), 1)
                      /\ UNCHANGED <<resumes, next_id>>
                 ELSE \E bio \in generate_bios(form) : \E commit2 \in BOOLEAN :
                      IF ~commit2
                      THEN /\ users' = users1
                           /\ last' = Committed(GenReply(u, form, "failed"), 1)
                           /\ UNCHANGED <<resumes, next_id>>
                      ELSE /\ new_resume_id <= cap
                           /\ users' = [users1 EXCEPT ![u] = charge_generation(usr, now)]
                           /\ resumes' = add_resume(resumes, new_resume_id,
                                                    new_resume(u, form, bio, pic_url))
                           /\ next_id' = next_id + 1
                           /\ \E page \in BOOLEAN :
                                \* step 11: render_template raises for a template
                                \* without a page; the commit is behind it
                                last' = Committed(
                                            Reply("generate", u, new_resume_id, form, 0, "",
                                                  IF page THEN "rendered" ELSE "failed", None), 2)

(***************************************************************************)
(* Resume record lifecycle.                                                *)
(***************************************************************************)

\* Resume.query.filter_by(id=resume_id, user_id=current_user.id).first()
owned_by(rid, u) == rid \in DOMAIN resumes /\ resumes[rid].user_id = u

\* What the rendered page shows of a row.
render(resume) ==
    <<[resume EXCEPT
         !.experiences = IF @ # None THEN json_loads(@) ELSE <<>>,
         !.projects = IF @ # None THEN json_loads(@) ELSE <<>>,
         !.certifications = IF @ # None THEN json_loads(@) ELSE <<>>]>>

ViewResume(u, rid) ==
    /\ UNCHANGED ai
    /\ u \in DOMAIN users
    /\ IF owned_by(rid, u)
       THEN \E page \in BOOLEAN :
            last' = IF page
                    THEN Reply("view", u, rid, EmptyForm, 0, "", "rendered", render(resumes[rid]))
                    ELSE Reply("view", u, rid, EmptyForm, 0, "", "error500", None)
       ELSE last' = Reply("view", u, rid, EmptyForm, 0, "", "not_found", None)
    /\ UNCHANGED <<users, resumes, next_id, purchases, files, now>>

\* db.session.delete(resume)
delete_row(table, rid) == [i \in DOMAIN table \ {rid} |-> table[i]]

\* Mutant: the owner is not compared.
delete_allowed_any(resume, u) == TRUE

\* delete_resume: may this user delete this row?
delete_allowed(resume, u) == resume.user_id = u

DeleteResume(u, rid) ==
    /\ UNCHANGED ai
    /\ u \in DOMAIN users
    /\ IF rid \notin DOMAIN resumes
       THEN /\ last' = Reply("delete", u, rid, EmptyForm, 0, "", "not_found", None)
            /\ UNCHANGED resumes
       ELSE IF ~delete_allowed(resumes[rid], u)
       THEN /\ last' = Reply("delete", u, rid, EmptyForm, 0, "", "unauthorized", None)
            /\ UNCHANGED resumes
       ELSE /\ resumes' = delete_row(resumes, rid)
            /\ last' = Committed(Reply("delete", u, rid, EmptyForm, 0, "", "deleted", None), 1)
    /\ UNCHANGED <<users, next_id, purchases, files, now>>

\* download_resume reads resume.job_title, resume.company and resume.job_desc,
\* columns generate never sets: the owner is answered with the saved page or
\* with an internal error.
DownloadResume(u, rid) ==
    /\ UNCHANGED ai
    /\ u \in DOMAIN users
    /\ IF rid \notin DOMAIN resumes
       THEN last' = Reply("download", u, rid, EmptyForm, 0, "", "not_found", None)
       ELSE IF resumes[rid].user_id # u
       THEN last' = Reply("download", u, rid, EmptyForm, 0, "", "access_denied", None)
       ELSE \E ok \in BOOLEAN :
            last' = Reply("download", u, rid, EmptyForm, 0, "",
                          IF ok THEN "saved" ELSE "error500", None)
    /\ UNCHANGED <<users, resumes, next_id, purchases, files, now>>

\* The copy edit_resume makes for ?duplicate=1.
duplicate_of(original, u) == [original EXCEPT !.user_id = u]

\* Mutant: a column is written only when the submission decodes to something.
edited_lists_keep(original, form) ==
    [original EXCEPT
       !.experiences = IF decode_experiences(form) # <<>>
                       THEN json_dumps(decode_experiences(form)) ELSE @,
       !.projects = IF decode_projects(form) # <<>>
                    THEN json_dumps(decode_projects(form)) ELSE @,
       !.certifications = IF decode_certifications(form) # <<>>
                          THEN json_dumps(decode_certifications(form)) ELSE @]

\* The three JSON columns after a POST.
edited_lists(original, form) ==
    [original EXCEPT
       !.experiences = json_or_none(decode_experiences(form)),
       !.projects = json_or_none(decode_projects(form)),
       !.certifications = json_or_none(decode_certifications(form))]

\* The plain columns after a POST.
edited_fields(original, form) ==
    [original EXCEPT
       !.name = sanitize_input(form_get(form, <<"name">>, <<>>)),
       !.profession = sanitize_input(form_get(form, <<"profession">>, <<>>)),
       !.email = form_get(form, <<"email">>, <<>>),
       !.bio = sanitize_input(form_get(form, <<"bio">>, <<>>)),
       !.skills = form_get(form, <<"skills">>, <<>>),
       !.degree = sanitize_input(form_get(form, <<"degree">>, <<>>)),
       !.template = form_get(form, <<"template">>, <<"classic">>)]

\* The upload folder once the old picture has been dealt with: os.remove may fail.
files_after_remove(url) ==
    IF url # None /\ old_path_of(url) \in files
    THEN {files \ {old_path_of(url)}, files}
    ELSE {files}

EditReply(u, rid, form, status, body) == Reply("edit", u, rid, form, 0, "", status, body)

\* GET or POST /resume/<id>/edit?duplicate=1
DuplicateResume(u, rid, cap) ==
    /\ UNCHANGED ai
    /\ u \in DOMAIN users
    /\ UNCHANGED <<users, purchases, files, now>>
    /\ IF ~owned_by(rid, u)
       THEN \* first_or_404 raises inside the try block
            /\ last' = Reply("duplicate", u, rid, EmptyForm, 0, "", "failed", None)
            /\ UNCHANGED <<resumes, next_id>>
       ELSE \E commit \in BOOLEAN :
            IF commit
            THEN /\ new_resume_id <= cap
                 /\ resumes' = add_resume(resumes, new_resume_id,
                                          duplicate_of(resumes[rid], u))
                 /\ next_id' = next_id + 1
                 /\ last' = Committed(Reply("duplicate", u, rid, EmptyForm, 0, "", "duplicated", None), 1)
            ELSE /\ last' = Reply("duplicate", u, rid, EmptyForm, 0, "", "failed", None)
                 /\ UNCHANGED <<resumes, next_id>>

\* GET /resume/<id>/edit
EditForm(u, rid) ==
    /\ UNCHANGED ai
    /\ u \in DOMAIN users
    /\ UNCHANGED <<users, resumes, next_id, purchases, files, now>>
    /\ IF ~owned_by(rid, u)
       THEN last' = Reply("edit_form", u, rid, EmptyForm, 0, "", "failed", None)
       ELSE last' = Reply("edit_form", u, rid, EmptyForm, 0, "", "rendered",
                          render(resumes[rid]))

\* POST /resume/<id>/edit
EditResume(u, rid, form, upload) ==
    /\ UNCHANGED ai
    /\ u \in DOMAIN users
    /\ UNCHANGED <<users, purchases, now>>
    /\ IF ~owned_by(rid, u)
       THEN \* first_or_404 raises inside the try block
            /\ last' = EditReply(u, rid, form, "failed", None)
            /\ UNCHANGED <<resumes, next_id, files>>
       ELSE IF upload_error(upload) # ""
       THEN \* returns without committing: the pending changes are dropped
            /\ last' = EditReply(u, rid, form, upload_error(upload), None)
            /\ UNCHANGED <<resumes, next_id, files>>
       ELSE
       LET original == resumes[rid]
           stored == IF upload = None THEN None
                     ELSE stored_filename(now, upload[1].filename)
           with_pic == IF upload = None THEN edited_fields(original, form)
                       ELSE [edited_fields(original, form) EXCEPT
                               !.profile_pic_url = pic_url_of(stored)]
       IN
       /\ IF upload = None THEN UNCHANGED files
          ELSE \E kept \in files_after_remove(original.profile_pic_url) :
               files' = kept \cup {stored}
       /\ \E commit \in BOOLEAN :
          IF commit
          THEN /\ resumes' = [resumes EXCEPT ![rid] = edited_lists(with_pic, form)]
               /\ UNCHANGED next_id
               /\ last' = [EditReply(u, rid, form, "updated", None) EXCEPT
                             !.before = <<original>>, !.commits = 1]
          ELSE /\ last' = EditReply(u, rid, form, "failed", None)
               /\ UNCHANGED <<resumes, next_id>>

(***************************************************************************)
(* get_ai_response: one call, an HTTP request at a time.  The content of a *)
(* completion is kept character by character, for its length to be that    *)
(* of the string.                                                          *)
(***************************************************************************)
max_retries == 3

MinContentLength == 10

\* " I ship code ": 11 characters once trimmed.
LongContent == <<" ", "I", " ", "s", "h", "i", "p", " ", "c", "o", "d", "e", " ">>

\* " I ship it!  ": 13 characters, 10 once trimmed.
TenContent == <<" ", "I", " ", "s", "h", "i", "p", " ", "i", "t", "!", " ", " ">>

\* What one requests.post can end with.
Outcomes ==
    {[kind |-> "response", status |-> 200, content |-> LongContent],
     [kind |-> "response", status |-> 200, content |-> TenContent],
     [kind |-> "response", status |-> 200, content |-> <<>>],
     [kind |-> "response", status |-> 429, content |-> <<>>],
     [kind |-> "response", status |-> 500, content |-> <<>>],
     [kind |-> "timeout", status |-> 0, content |-> <<>>],
     [kind |-> "network_error", status |-> 0, content |-> <<>>]}

\* Mutant: any content that is not empty is accepted.
accepted_any(content) == content # <<>>

\* if content and len(content) > 10
accepted(content) == content # <<>> /\ Len(content) > MinContentLength

\* The call begins: without an API key it returns None at once.
AiCall(api_key) ==
    /\ ai.pc = "idle"
    /\ ai' = IF api_key THEN [AiIdle EXCEPT !.pc = "loop", !.api_key = TRUE]
             ELSE [AiIdle EXCEPT !.pc = "done"]
    /\ UNCHANGED <<users, resumes, next_id, purchases, files, now, last>>

\* One pass of the loop body: the request is sent and its outcome dealt with.
AiAttempt(outcome) ==
    /\ ai.pc = "loop"
    /\ ai.attempt < max_retries
    /\ LET posted == [ai EXCEPT !.sent = @ + 1, !.outcomes = Append(@, outcome)]
           content == Strip(outcome.content)
       IN ai' = IF outcome.kind = "response" /\ outcome.status = 200
                THEN IF accepted(content)
                     THEN [posted EXCEPT !.result = content, !.pc = "done"]
                     ELSE [posted EXCEPT !.attempt = @ + 1]
                ELSE IF outcome.kind = "response" /\ outcome.status = 429
                THEN [posted EXCEPT !.slept = @ + 2 ^ ai.attempt, !.attempt = @ + 1]
                ELSE \* another status falls out of the if, an exception continues:
                     \* either way the loop goes on to the next attempt
                     [posted EXCEPT !.attempt = @ + 1]
    /\ UNCHANGED <<users, resumes, next_id, purchases, files, now, last>>

\* The loop is over: return None.
AiExhausted ==
    /\ ai.pc = "loop"
    /\ ai.attempt = max_retries
    /\ ai' = [ai EXCEPT !.pc = "done", !.result = None]
    /\ UNCHANGED <<users, resumes, next_id, purchases, files, now, last>>

(***************************************************************************)
(* The specification.                                                      *)
(***************************************************************************)
\* The token gate: the requests of the first account that touch its balance.
GateForms == {FormPlain, FormPremium}

GateNext ==
    \/ Tick
    \/ \E valid \in BOOLEAN : Register(1, valid)
    \/ \E count \in Counts : BuyToken(1, count)
    \/ \E plan \in Plans : Upgrade(1, plan)
    \/ \E form \in GateForms : Generate(1, form, None, MaxGenerated)

Spec == Init /\ [][GateNext]_vars

\* The purchase ledger: every handler that writes, with the requests of the
\* first account.
LedgerNext ==
    \/ \E valid \in BOOLEAN : Register(1, valid)
    \/ \E count \in Counts : BuyToken(1, count)
    \/ \E plan \in Plans : Upgrade(1, plan)
    \/ Generate(1, FormPlain, None, MaxResumes)
    \/ \E rid \in 1..MaxResumes : DeleteResume(1, rid)
    \/ \E rid \in 1..MaxResumes : DuplicateResume(1, rid, MaxResumes)
    \/ \E rid \in 1..MaxResumes : EditResume(1, rid, FormPremium, None)

SpecLedger == Init /\ [][LedgerNext]_vars

\* The resume record lifecycle: every resume handler, with the requests of
\* every account on every row.
LifecycleNext ==
    \/ \E email \in Emails, valid \in BOOLEAN : Register(email, valid)
    \/ \E u \in UserIds, form \in Forms : Generate(u, form, None, MaxResumes)
    \/ \E u \in UserIds, rid \in 1..MaxResumes : ViewResume(u, rid)
    \/ \E u \in UserIds, rid \in 1..MaxResumes : DeleteResume(u, rid)
    \/ \E u \in UserIds, rid \in 1..MaxResumes : DownloadResume(u, rid)
    \/ \E u \in UserIds, rid \in 1..MaxResumes : DuplicateResume(u, rid, MaxResumes)
    \/ \E u \in UserIds, rid \in 1..MaxResumes : EditForm(u, rid)
    \/ \E u \in UserIds, rid \in 1..MaxResumes, form \in Forms :
          EditResume(u, rid, form, None)

SpecLifecycle == Init /\ [][LifecycleNext]_vars

\* Duplication with profile pictures: the first account generates with and
\* without an upload, duplicates, and edits or deletes the rows, as time passes.
CopyUploads == {None, <<[filename |-> <<"me", ".", "PNG">>, size |-> 1024]>>}

CopyNext ==
    \/ Tick
    \/ \E valid \in BOOLEAN : Register(1, valid)
    \/ \E upload \in CopyUploads : Generate(1, FormPlain, upload, MaxResumes)
    \/ \E rid \in 1..MaxResumes : DuplicateResume(1, rid, MaxResumes)
    \/ \E rid \in 1..MaxResumes, upload \in CopyUploads : EditResume(1, rid, FormPremium, upload)
    \/ \E rid \in 1..MaxResumes : DeleteResume(1, rid)

SpecCopy == Init /\ [][CopyNext]_vars

\* Creation: the first account generates from a submission without a bio,
\* without a name and with an empty name, and edits without a name.
CreateForms == {FormAda, FormNoName, FormBlankName}

CreateNext ==
    \/ Tick
    \/ \E valid \in BOOLEAN : Register(1, valid)
    \/ \E form \in CreateForms : Generate(1, form, None, MaxResumes)
    \/ \E rid \in 1..MaxResumes : EditResume(1, rid, FormNoName, None)

SpecCreate == Init /\ [][CreateNext]_vars

(***************************************************************************)
(* The nested-form decoder on its own: a submission is drawn, and each     *)
(* of the three decoding loops is run over it.                             *)
(***************************************************************************)
IndexTokens == {<<"0">>, <<"x">>}

\* A field is left out of the submission or sent with one of these values.
SlotChoices == {<<>>, <<<<>>>>, <<<<" ">>>>, <<<<" ", "Lead">>>>, <<<<"<script>">>>>}

Slot(key, choice) == IF choice = <<>> THEN <<>> ELSE << <<key, choice[1]>> >>

\* The submissions of one group kind: two index tokens, the field the loop
\* looks for and one other field.
GroupForms(prefix, anchor, other) ==
    {Slot(group_key(prefix, <<"0">>, anchor), a) \o Slot(group_key(prefix, <<"0">>, other), b)
       \o Slot(group_key(prefix, <<"x">>, other), c) \o Slot(group_key(prefix, <<"x">>, anchor), d) :
     a \in SlotChoices, b \in SlotChoices, c \in SlotChoices, d \in SlotChoices}

DecodeInputs ==
    GroupForms("experiences", "job_title", "company")
    \cup GroupForms("projects", "name", "description")
    \cup GroupForms("certifications", "name", "issuer")

DecodeInit ==
    /\ users = <<>>
    /\ resumes = <<>>
    /\ next_id = 1
    /\ purchases = <<>>
    /\ files = {}
    /\ now = 0
    /\ ai = AiIdle
    /\ \E form \in DecodeInputs : last = Reply("submit", 0, 0, form, 0, "", "", None)

DecodeReply(op, list) == Reply(op, 0, 0, last.form, 0, "", "decoded", list)

\* Step 6
DecodeExperiences ==
    /\ UNCHANGED ai
    /\ last' = DecodeReply("decode_experiences", decode_experiences(last.form))
    /\ UNCHANGED <<users, resumes, next_id, purchases, files, now>>

\* Step 7
DecodeProjects ==
    /\ UNCHANGED ai
    /\ last' = DecodeReply("decode_projects", decode_projects(last.form))
    /\ UNCHANGED <<users, resumes, next_id, purchases, files, now>>

\* Step 8
DecodeCertifications ==
    /\ UNCHANGED ai
    /\ last' = DecodeReply("decode_certifications", decode_certifications(last.form))
    /\ UNCHANGED <<users, resumes, next_id, purchases, files, now>>

DecodeNext == DecodeExperiences \/ DecodeProjects \/ DecodeCertifications

SpecDecode == DecodeInit /\ [][DecodeNext]_vars

\* One call of get_ai_response, with every sequence of outcomes.  A request
\* ends within its timeout and a backoff sleep is finite: a pass of the loop
\* that can be made is made.
AiStep == (\E outcome \in Outcomes : AiAttempt(outcome)) \/ AiExhausted

AiNext ==
    \/ \E api_key \in BOOLEAN : AiCall(api_key)
    \/ \E outcome \in Outcomes : AiAttempt(outcome)
    \/ AiExhausted

SpecAi == Init /\ [][AiNext]_vars /\ WF_vars(AiStep)

(***************************************************************************)
(* Properties.                                                             *)
(***************************************************************************)
Refusals == {"premium_required", "out_of_tokens"}

\* The daily reset of step 1 is due for this user.
ResetDue(user) == user.plan = "free" /\ Day(user.last_token_reset) # Day(now)

OthersUnchanged(u) ==
    /\ DOMAIN users' = DOMAIN users
    /\ \A v \in DOMAIN users : v # u => users'[v] = users[v]

RequestedTemplate(form) == form_get(form, <<"template">>, <<"classic">>)

C2_GenerateAtomic ==
    [][last'.op = "generate" =>
         LET u == last'.user
             all == /\ DOMAIN resumes' = DOMAIN resumes \cup {next_id}
                    /\ next_id \notin DOMAIN resumes
                    /\ \A rid \in DOMAIN resumes : resumes'[rid] = resumes[rid]
                    /\ resumes'[next_id].user_id = u
                    /\ users'[u].last_generated = now
                    /\ \E usr \in reset_tokens_if_needed(users[u], now) :
                         /\ users'[u].last_token_reset = usr.last_token_reset
                         /\ users'[u].tokens =
                              IF usr.plan = "ultimate" THEN usr.tokens ELSE usr.tokens - 1
             none == /\ resumes' = resumes
                     /\ users'[u].last_generated = users[u].last_generated
                     /\ users'[u] \in reset_tokens_if_needed(users[u], now) \cup {users[u]}
                     /\ last'.status # "rendered"
         IN (all \/ none) /\ OthersUnchanged(u)]_vars

\* A free user's generate request went through: row stored, token deducted.
C2_Witness ==
    /\ last.op = "generate"
    /\ last.status = "rendered"
    /\ last.rid \in DOMAIN resumes
    /\ users[last.user].plan = "free"
    /\ users[last.user].tokens = RegisterTokens - 1
    /\ users[last.user].last_generated = now

\* C3: whatever register, generate, buy_token, upgrade and daily-reset steps
\* were taken, no stored token balance is negative.
C3_BalanceNeverNegative == \A u \in DOMAIN users : users[u].tokens >= 0

\* A user has spent the last token.
C3_Witness ==
    /\ last.op = "generate"
    /\ last.status = "rendered"
    /\ users[last.user].tokens = 0

\* C4: upgrade('ultimate') leaves the balance at the unlimited sentinel and
\* the plan at 'ultimate', and no generate request of an ultimate user
\* changes that user's balance or plan.
C4_UltimateUnlimited ==
    [][/\ (last'.op = "upgrade" /\ last'.plan = "ultimate") =>
            /\ users'[last'.user].tokens = UnlimitedTokens
            /\ users'[last'.user].plan = "ultimate"
       /\ (last'.op = "generate" /\ users[last'.user].plan = "ultimate") =>
            /\ users'[last'.user].tokens = users[last'.user].tokens
            /\ users'[last'.user].plan = "ultimate"]_vars

\* An ultimate user generated a resume and still holds the sentinel balance.
C4_Witness ==
    /\ last.op = "generate"
    /\ last.status = "rendered"
    /\ users[last.user].plan = "ultimate"
    /\ users[last.user].tokens = UnlimitedTokens

\* C5: buy_token with a count other than 1 or 5, and upgrade with a plan
\* other than 'pro' or 'ultimate', leave balance and plan unchanged and
\* record no Purchase.
C5_UnknownRejected ==
    [][(\/ last'.op = "buy_token" /\ last'.count \notin {1, 5}
        \/ last'.op = "upgrade" /\ last'.plan \notin {"pro", "ultimate"})
         => (users' = users /\ purchases' = purchases
             /\ last'.status \in {"invalid_pack", "invalid_plan"})]_vars

\* A pack of 3 was asked for.
C5_Witness ==
    /\ last.op = "buy_token"
    /\ last.count = 3
    /\ last.status = "invalid_pack"

\* C6: buy_token with count 1 or 5 adds exactly count to the balance, leaves
\* the plan alone and records exactly one Purchase of that user at the pack's
\* price (50 for 1, 100 for 5).
C6_BuyKnownPack ==
    [][(last'.op = "buy_token" /\ last'.count \in {1, 5}) =>
         LET u == last'.user IN
         /\ users'[u].tokens = users[u].tokens + last'.count
         /\ users'[u].plan = users[u].plan
         /\ OthersUnchanged(u)
         /\ Len(purchases') = Len(purchases) + 1
         /\ SubSeq(purchases', 1, Len(purchases)) = purchases
         /\ purchases'[Len(purchases')].user_id = u
         /\ purchases'[Len(purchases')].amount = IF last'.count = 1 THEN 50 ELSE 100]_vars

\* A pack of 5 was bought.
C6_Witness ==
    /\ last.op = "buy_token"
    /\ last.count = 5
    /\ last.status = "purchased"
    /\ purchases # <<>>
    /\ purchases[Len(purchases)].amount = 100

\* C7: upgrade('pro') adds exactly 15 to the balance and sets the plan to
\* 'pro'; upgrade('ultimate') sets the balance to 9999 and the plan to
\* 'ultimate'; each records exactly one Purchase, at 199 for pro and 499 for
\* ultimate, two different prices.
C7_UpgradeEffects ==
    [][(last'.op = "upgrade" /\ last'.plan \in {"pro", "ultimate"}) =>
         LET u == last'.user IN
         /\ last'.plan = "pro" =>
              /\ users'[u].tokens = users[u].tokens + 15
              /\ users'[u].plan = "pro"
              /\ purchases'[Len(purchases')].amount = 199
         /\ last'.plan = "ultimate" =>
              /\ users'[u].tokens = 9999
              /\ users'[u].plan = "ultimate"
              /\ purchases'[Len(purchases')].amount = 499
         /\ OthersUnchanged(u)
         /\ Len(purchases') = Len(purchases) + 1
         /\ SubSeq(purchases', 1, Len(purchases)) = purchases
         /\ purchases'[Len(purchases')].user_id = u
         /\ ProPrice # UltimatePrice]_vars

\* A user went pro.
C7_Witness ==
    /\ last.op = "upgrade"
    /\ last.plan = "pro"
    /\ last.status = "upgraded"
    /\ users[last.user].plan = "pro"

\* C8: the Purchase ledger is append-only: a step either leaves it as it was
\* or appends one row to it, and only a buy_token or upgrade request that
\* went through appends; no request changes or removes a row that exists.
C8_LedgerAppendOnly ==
    [][/\ Len(purchases') >= Len(purchases)
       /\ SubSeq(purchases', 1, Len(purchases)) = purchases
       /\ purchases' # purchases =>
            /\ Len(purchases') = Len(purchases) + 1
            /\ \/ last'.op = "buy_token" /\ last'.status = "purchased"
               \/ last'.op = "upgrade" /\ last'.status = "upgraded"]_vars

\* Two purchases were recorded, and a resume was deleted afterwards.
C8_Witness ==
    /\ Len(purchases) = 2
    /\ last.op = "delete"
    /\ last.status = "deleted"

Denials == {"not_found", "unauthorized", "access_denied", "failed"}

\* C9: a view, edit, duplicate, delete or download request for a row of
\* another user leaves every row as it was, adds none, and is answered with
\* a denial or not-found that shows nothing of the row.
C9_OwnershipChecked ==
    [][(/\ last'.op \in {"view", "edit", "edit_form", "duplicate", "delete", "download"}
        /\ last'.rid \in DOMAIN resumes
        /\ resumes[last'.rid].user_id # last'.user)
         => (/\ resumes' = resumes
             /\ last'.status \in Denials
             /\ last'.body = None)]_vars

\* A user asked to delete another user's row, which is still there.
C9_Witness ==
    /\ last.op = "delete"
    /\ last.status = "unauthorized"
    /\ last.rid \in DOMAIN resumes
    /\ resumes[last.rid].user_id # last.user

\* The form holds a field of this group.
HasGroup(form, prefix) ==
    \E i \in 1..Len(form) : Len(form[i][1]) >= 2 /\ form[i][1][1] = prefix /\ form[i][1][2] = "["

\* C10: an edit POST that went through leaves in each of the three list
\* columns what the submission decodes to and nothing of what was stored: a
\* submission without a group of a kind leaves that column None.
C10_EditReplacesLists ==
    (last.op = "edit" /\ last.status = "updated") =>
        LET row == resumes[last.rid] IN
        /\ row.experiences = json_or_none(decode_experiences(last.form))
        /\ row.projects = json_or_none(decode_projects(last.form))
        /\ row.certifications = json_or_none(decode_certifications(last.form))
        /\ ~HasGroup(last.form, "experiences") => row.experiences = None
        /\ ~HasGroup(last.form, "projects") => row.projects = None
        /\ ~HasGroup(last.form, "certifications") => row.certifications = None

\* An edit without experience groups cleared the experiences the row held.
C10_Witness ==
    /\ last.op = "edit"
    /\ last.status = "updated"
    /\ ~HasGroup(last.form, "experiences")
    /\ last.before[1].experiences # None
    /\ resumes[last.rid].experiences = None

\* The picture a row refers to is in the upload folder (or the row has none).
PicStored(resume, folder) ==
    resume.profile_pic_url # None => old_path_of(resume.profile_pic_url) \in folder

\* C11 as stated: a duplication adds exactly one row, under the same owner and
\* equal to the original in every content field, and leaves the other rows
\* and the users as they were; the copy is independent of the original: the
\* edit or delete of the copy that follows leaves the original row as it was
\* and the picture it refers to in the upload folder.
C11_DuplicateIndependent ==
    [][/\ (last'.op = "duplicate" /\ last'.status = "duplicated") =>
            /\ next_id \notin DOMAIN resumes
            /\ DOMAIN resumes' = DOMAIN resumes \cup {next_id}
            /\ \A r \in DOMAIN resumes : resumes'[r] = resumes[r]
            /\ resumes'[next_id] = resumes[last'.rid]
            /\ resumes'[next_id].user_id = last'.user
            /\ users' = users
       /\ (/\ last.op = "duplicate" /\ last.status = "duplicated"
           /\ last'.op \in {"edit", "delete"}
           /\ last'.rid = next_id - 1) =>
            /\ last.rid \in DOMAIN resumes'
            /\ resumes'[last.rid] = resumes[last.rid]
            /\ PicStored(resumes[last.rid], files) => PicStored(resumes'[last.rid], files')]_vars

\* The value submitted under key is not empty once trimmed and sanitized.
Shown(form, key) == BleachClean(Strip(form_get(form, key, <<>>))) # <<>>

\* list holds one record per token of kept, and nothing else.
OnePerToken(list, kept, Rec(_)) ==
    \E f \in [1..Len(list) -> kept] :
        /\ \A i, j \in 1..Len(list) : f[i] = f[j] => i = j
        /\ \A idx \in kept : \E i \in 1..Len(list) : f[i] = idx
        /\ \A i \in 1..Len(list) : list[i] = Rec(f[i])

\* The index tokens of a group: those under which the form holds a field.
TokensOf(form, prefix, fields) ==
    {idx \in IndexTokens : \E field \in fields : form_has(form, group_key(prefix, idx, field))}

ExperienceOk(form, idx) ==
    \/ Shown(form, group_key("experiences", idx, "job_title"))
    \/ Shown(form, group_key("experiences", idx, "company"))

NameOk(form, prefix, idx) == Shown(form, group_key(prefix, idx, "name"))

\* C12 as stated: each decoder emits exactly one record per distinct index
\* token of its group whose fields satisfy the required-field predicate
\* (experience: job_title or company non-empty; project, certification: name
\* non-empty), none for any other token, none for an empty submission.
C12_OnePerIndexToken ==
    LET form == last.form IN
    /\ last.op = "decode_experiences" =>
         OnePerToken(last.body,
                     {idx \in TokensOf(form, "experiences", {"job_title", "company", "job_desc"}) :
                        ExperienceOk(form, idx)},
                     LAMBDA idx : experience_record(form, idx))
    /\ last.op = "decode_projects" =>
         OnePerToken(last.body,
                     {idx \in TokensOf(form, "projects", {"name", "description", "link"}) :
                        NameOk(form, "projects", idx)},
                     LAMBDA idx : project_record(form, idx))
    /\ last.op = "decode_certifications" =>
         OnePerToken(last.body,
                     {idx \in TokensOf(form, "certifications", {"name", "issuer", "year"}) :
                        NameOk(form, "certifications", idx)},
                     LAMBDA idx : certification_record(form, idx))
    /\ (last.status = "decoded" /\ form = <<>>) => last.body = <<>>

\* C12, amended: each decoder emits exactly one record per distinct index
\* token under which the anchor field of its group (experience: job_title;
\* project, certification: name) was submitted and whose fields, trimmed and
\* sanitized, satisfy the required-field predicate; none for any other token
\* (an experience group submitted without a job_title field is not decoded,
\* whatever its company), none for an empty submission.
C12_OnePerAnchoredToken ==
    LET form == last.form IN
    /\ last.op = "decode_experiences" =>
         OnePerToken(last.body,
                     {idx \in TokensOf(form, "experiences", {"job_title"}) : ExperienceOk(form, idx)},
                     LAMBDA idx : experience_record(form, idx))
    /\ last.op = "decode_projects" =>
         OnePerToken(last.body,
                     {idx \in TokensOf(form, "projects", {"name"}) : NameOk(form, "projects", idx)},
                     LAMBDA idx : project_record(form, idx))
    /\ last.op = "decode_certifications" =>
         OnePerToken(last.body,
                     {idx \in TokensOf(form, "certifications", {"name"}) :
                        NameOk(form, "certifications", idx)},
                     LAMBDA idx : certification_record(form, idx))
    /\ (last.status = "decoded" /\ form = <<>>) => last.body = <<>>

\* Of two experience groups with a job_title field one was kept for its
\* company alone, the other dropped.
C12_Witness ==
    /\ last.op = "decode_experiences"
    /\ TokensOf(last.form, "experiences", {"job_title"}) = IndexTokens
    /\ Len(last.body) = 1
    /\ last.body[1].job_title = <<>>
    /\ last.body[1].company # <<>>

Contains(text, tok) == \E i \in 1..Len(text) : text[i] = tok

\* The bios generate_bio returns when get_ai_response handed back a completion.
Completions == {unquote(Strip(answer)) : answer \in AiResponses \ {None}}

\* C13 as stated: with the AI service unavailable, a generate request with an
\* empty bio, name "Ada", profession "Engineer" and skills "Python,Go" stores
\* a bio that contains "Ada", "Engineer", "Python" and "Go", whichever
\* fallback template is chosen.
C13_FallbackBioNamesAll ==
    [][(/\ last'.op = "generate"
        /\ last'.form = FormAda
        /\ last'.status = "rendered"
        /\ last'.rid \in DOMAIN resumes' \ DOMAIN resumes
        /\ resumes'[last'.rid].bio \notin Completions)
         => LET bio == resumes'[last'.rid].bio IN
            /\ Contains(bio, "Ada")
            /\ Contains(bio, "Engineer")
            /\ Contains(bio, "Python")
            /\ Contains(bio, "Go")]_vars

\* C14 as stated: a generate request without a name or without a profession
\* is answered with an error, adds no row and deducts no token; and no row is
\* ever stored with a missing or empty name or profession.
C14_RequiredFields ==
    [][/\ (last'.op = "generate" /\ missing_required(last'.form)) =>
            /\ last'.status \in Refusals \cup {"failed"}
            /\ resumes' = resumes
            /\ users'[last'.user].tokens \in
                 {usr.tokens : usr \in reset_tokens_if_needed(users[last'.user], now) \cup {users[last'.user]}}
       /\ \A rid \in DOMAIN resumes' :
            (rid \notin DOMAIN resumes \/ resumes'[rid] # resumes[rid]) =>
                resumes'[rid].name # <<>> /\ resumes'[rid].profession # <<>>]_vars

\* C15 as stated: once an attempt of a call has received an HTTP status other
\* than 200 or 429, no further HTTP request is sent during that call.
C15_OtherStatusNotRetried ==
    [][(\E i \in 1..Len(ai.outcomes) :
          /\ ai.outcomes[i].kind = "response"
          /\ ai.outcomes[i].status \notin {200, 429})
         => ai'.sent = ai.sent]_vars

\* A 200 response whose trimmed text is longer than 10 characters.
Good(outcome) ==
    /\ outcome.kind = "response"
    /\ outcome.status = 200
    /\ Len(Strip(outcome.content)) > 10

\* What a call may have sent and, once over, what it returns.
AiBounded ==
    /\ ai.sent <= max_retries
    /\ ai.sent = Len(ai.outcomes)
    /\ ai.result # None => ai.pc = "done"
    /\ ai.pc = "done" =>
         IF ~ai.api_key THEN ai.result = None /\ ai.sent = 0
         ELSE IF \E i \in 1..Len(ai.outcomes) : Good(ai.outcomes[i])
         THEN /\ Good(ai.outcomes[ai.sent])
              /\ \A i \in 1..(ai.sent - 1) : ~Good(ai.outcomes[i])
              /\ ai.result = Strip(ai.outcomes[ai.sent].content)
         ELSE ai.result = None /\ ai.sent = max_retries

\* C16: a call of get_ai_response terminates, whatever the outcomes of its
\* requests: it sends at most max_retries requests, returns the trimmed text
\* of the first 200 response whose trimmed length exceeds 10 (sending nothing
\* after it), returns None once max_retries attempts have failed, and returns
\* None without sending a request when no API key is configured.
C16_AiTerminates == []AiBounded /\ ((ai.pc = "loop") ~> (ai.pc = "done"))

\* A call returned the third response after a rate limit and a short text.
C16_Witness ==
    /\ ai.pc = "done"
    /\ ai.sent = max_retries
    /\ ai.outcomes[1].status = 429
    /\ ai.outcomes[2].content = TenContent
    /\ ai.result = Strip(LongContent)

\* C17 as stated: a request is handled with at most one database commit,
\* and a request that ends in the failure answer of an exception handler
\* leaves no database write behind: users, resumes and purchases are as they
\* were before it (a generate request that fails after its token-reset step
\* included).
C17_SingleCommitRollback ==
    [][/\ last'.commits <= 1
       /\ last'.status = "failed" =>
            /\ users' = users
            /\ resumes' = resumes
            /\ purchases' = purchases]_vars

\* C18 as stated: whatever generate, edit and duplicate requests were
\* handled, every resume of a user whose plan is free has a template of the
\* free set.
C18_FreePlanFreeTemplates ==
    \A rid \in DOMAIN resumes :
        users[resumes[rid].user_id].plan = "free" => resumes[rid].template \in FREE_TEMPLATES

====
